---- MODULE Spec2Model ----
(***************************************************************************)
(* Model of scripts/fill-memcached.py (cloudflare/cfnts): the script that  *)
(* seeds memcached with one 16-byte random secret per hour-aligned epoch.  *)
(*                                                                         *)
(* The script is Python 2: `now/interval` on two ints is floor division,   *)
(* `print` writes one line to stdout, rand.read(16) is a str, and a script *)
(* that runs off its end exits with status 0.  The script catches nothing  *)
(* and raises nothing itself; the imports, the client and the open of line *)
(* 8 are taken to succeed.                                                 *)
(*                                                                         *)
(* External collaborators are modelled by their interface:                 *)
(*   - memcache.Client.set(key, val) returns 0 on failure and a non-zero   *)
(*     value on success; it reports a dead server by returning 0, it does  *)
(*     not raise.  A successful set creates or overwrites the key, a       *)
(*     failed one leaves the server's contents alone.                      *)
(*   - file.read(n) returns at most n bytes: fewer only at end of file.    *)
(*   - the wall clock, in milliseconds, of which time.time() is a reading. *)
(*   - the random stream is a fixed one whose 16-byte blocks all differ;   *)
(*     values enter the properties only through equality and length.       *)
(***************************************************************************)
EXTENDS Integers, Sequences, FiniteSets, TLC

VARIABLES
    pc,         \* position of the script: "start", "loop", "done"
    clock,      \* wall clock in milliseconds
    now,        \* line 11
    i,          \* line 12: the next element of range(-50, 4)
    cache,      \* contents of the memcached server: key -> value
    reachable,  \* whether the memcached server at localhost:11211 answers
    randSize,   \* bytes /dev/urandom holds before end of file; negative: a device, no end
    randPos,    \* bytes of the random source consumed so far
    trace,      \* what the current run printed, read and SET, in program order
    exitStatus, \* exit status of the process, -1 while it runs
    run,        \* number of the current run of the script
    prevNow,    \* `now` of the previous run (-1 when there is none)
    prevKeys,   \* keys the previous run passed to mc.set
    prevCache   \* keys the server held when the previous run ended

vars == <<pc, clock, now, i, cache, reachable, randSize, randPos, trace,
          exitStatus, run, prevNow, prevKeys, prevCache>>

----------------------------------------------------------------------------
(* Program constants *)

interval == 3600        \* line 10
RangeStart == -50       \* line 12: range(-50, 4)
\* mutant of RangeStop: range(-50, 3)
RangeStopExclusive == RangeStart + 53
RangeStop == 4
ReadSize == 16          \* line 16: rand.read(16)

\* line 14: "/nts/nts-keys/"
Prefix == "/nts/nts-keys/"

\* line 5, 17, 19: the fixed lines the script prints
Banner == "filling memcache"
FailureLine == "failure"
SuccessLine == "success"

(* Bounds of the model *)

MaxRuns == 2            \* runs of the script in one behaviour

\* instants (ms) at which the script is first started, and at which it is started again
Clocks == {3599999, 35999600, 36000000}
RerunClocks == {36000400, 39599500, 39600000}

\* sizes of /dev/urandom: a device (no end of file), or a file of 24 bytes
RandSizes == {-1, 24}

\* where the random stream stands when the script first opens the device
RandStarts == {0, 1600}

\* the iterations at which a reachable server may fail a SET: the first two,
\* the current bucket, the one before it and the last
FlakyOffsets == {-50, -49, -1, 0, 3}

----------------------------------------------------------------------------
(* Pure helpers *)

Min(a, b) == IF a < b THEN a ELSE b

DigitChars == <<"0", "1", "2", "3", "4", "5", "6", "7", "8", "9">>

RECURSIVE NatStr(_)
NatStr(n) == IF n < 10 THEN DigitChars[n + 1]
             ELSE NatStr(n \div 10) \o DigitChars[(n % 10) + 1]

\* mutant of IntStr: the sign is lost
IntStrUnsigned(n) == NatStr(IF n < 0 THEN -n ELSE n)

\* "%s" % epoch for a Python int: decimal digits, "-" in front of a negative one
IntStr(n) == IF n < 0 THEN "-" \o NatStr(-n) ELSE NatStr(n)

\* line 11: int(math.floor(time.time()))
Floor(ms) == ms \div 1000

\* mutant of Epoch: the time is not cut down to the hour
EpochUnaligned(t, k) == t + k * interval

\* mutant of Epoch: the offset is left out
EpochIgnoringOffset(t, k) == (t \div interval) * interval

\* mutant of Epoch: the time is rounded up to the hour
EpochCeil(t, k) == (((t + interval - 1) \div interval) + k) * interval

\* line 13: int((math.floor(now/interval)+i)*interval)
Epoch(t, k) == ((t \div interval) + k) * interval

\* line 14: "/nts/nts-keys/%s" % epoch
Key(epoch) == Prefix \o IntStr(epoch)

\* the byte at position p of the random stream, as a one-character str: the
\* stream is fixed, and its 16-byte blocks are pairwise different
HexChars == <<"0", "1", "2", "3", "4", "5", "6", "7", "8", "9", "a", "b", "c", "d", "e", "f">>

RandByte(p) ==
    LET d == p \div 16
        j == p % 16
    IN HexChars[((IF j = 0 THEN d ELSE IF j = 1 THEN d \div 16 ELSE d + j) % 16) + 1]

\* line 16: rand.read(16): at most ReadSize bytes, fewer only at end of file
ReadLen(size, pos) == IF size < 0 THEN ReadSize
                      ELSE Min(ReadSize, IF size > pos THEN size - pos ELSE 0)

RECURSIVE Bytes(_, _)
Bytes(pos, n) == IF n = 0 THEN "" ELSE Bytes(pos, n - 1) \o RandByte(pos + n - 1)

\* a Python 2 str of the bytes read
RandRead(size, pos) == Bytes(pos, ReadLen(size, pos))

\* line 16: what mc.set may return: 0 on failure, 1 on success
SetResults(up, k) == IF ~up THEN {0}
                     ELSE IF k \in FlakyOffsets THEN {0, 1} ELSE {1}

\* mutant of Store: an ADD, which leaves a key that is present alone
StoreAddOnly(c, key, val, ret) ==
    IF ret = 0 \/ key \in DOMAIN c THEN c
    ELSE [k \in (DOMAIN c) \cup {key} |-> IF k = key THEN val ELSE c[k]]

\* the server's side of a SET: a successful one creates or overwrites the key
Store(c, key, val, ret) ==
    IF ret = 0 THEN c
    ELSE [k \in (DOMAIN c) \cup {key} |-> IF k = key THEN val ELSE c[k]]

\* lines 16-19: the status line
StatusLine(ret) == IF ret = 0 THEN FailureLine ELSE SuccessLine

\* the events of a run: a line printed, a rand.read(n) and what it returned,
\* an mc.set(key, val) with what it returned and the loop variable and epoch then
PrintEvent(line) == [op |-> "print", line |-> line]
ReadEvent(n, val) == [op |-> "read", n |-> n, val |-> val]
SetEvent(k, epoch, key, val, ret) ==
    [op |-> "set", i |-> k, epoch |-> epoch, key |-> key, val |-> val, ret |-> ret]

Sets(tr) == SelectSeq(tr, LAMBDA e : e.op = "set")
Reads(tr) == SelectSeq(tr, LAMBDA e : e.op = "read")
Out(tr) == SelectSeq(tr, LAMBDA e : e.op = "print")
SetKeys(tr) == {tr[j].key : j \in {n \in 1..Len(tr) : tr[n].op = "set"}}

----------------------------------------------------------------------------
(* Initial state *)

\* what the server holds before the first run: a stale secret and a foreign key
StaleCache ==
    [k \in {"/nts/nts-keys/0", "/nts/x"} |-> "stale"]

Init ==
    /\ pc = "start"
    /\ clock \in Clocks
    /\ now = 0
    /\ i = RangeStart
    /\ cache = StaleCache
    /\ reachable \in BOOLEAN
    /\ randSize \in RandSizes
    /\ randPos \in RandStarts
    /\ trace = <<>>
    /\ exitStatus = -1
    /\ run = 1
    /\ prevNow = -1
    /\ prevKeys = {}
    /\ prevCache = {}

----------------------------------------------------------------------------
(* Actions *)

\* lines 5-11: the banner, the client, the random source, the time
Start ==
    /\ pc = "start"
    /\ pc' = "loop"
    /\ trace' = Append(trace, PrintEvent(Banner))
    /\ randPos' = IF randSize < 0 THEN randPos ELSE 0
    /\ now' = Floor(clock)
    /\ i' = RangeStart
    /\ UNCHANGED <<clock, cache, reachable, randSize, exitStatus, run,
                   prevNow, prevKeys, prevCache>>

\* mutant of Iterate: a failed SET ends the script with an error
IterateStopOnFailure ==
    /\ pc = "loop"
    /\ i < RangeStop
    /\ LET epoch == Epoch(now, i)
           key == Key(epoch)
           val == RandRead(randSize, randPos)
       IN \E ret \in SetResults(reachable, i) :
            /\ trace' = trace \o << PrintEvent(key),
                                    ReadEvent(ReadSize, val),
                                    SetEvent(i, epoch, key, val, ret),
                                    PrintEvent(StatusLine(ret)) >>
            /\ cache' = Store(cache, key, val, ret)
            /\ randPos' = randPos + Len(val)
            /\ pc' = IF ret = 0 THEN "aborted" ELSE pc
            /\ exitStatus' = IF ret = 0 THEN 1 ELSE exitStatus
    /\ i' = i + 1
    /\ UNCHANGED <<clock, now, reachable, randSize, run, prevNow, prevKeys, prevCache>>

\* mutant of Iterate: a failed SET is tried again
IterateRetry ==
    /\ pc = "loop"
    /\ i < RangeStop
    /\ LET epoch == Epoch(now, i)
           key == Key(epoch)
           val == RandRead(randSize, randPos)
       IN \E ret \in SetResults(reachable, i) :
            /\ trace' = trace \o << PrintEvent(key),
                                    ReadEvent(ReadSize, val),
                                    SetEvent(i, epoch, key, val, ret),
                                    PrintEvent(StatusLine(ret)) >>
            /\ cache' = Store(cache, key, val, ret)
            /\ randPos' = randPos + Len(val)
            /\ i' = IF ret = 0 THEN i ELSE i + 1
    /\ UNCHANGED <<pc, clock, now, reachable, randSize, exitStatus, run,
                   prevNow, prevKeys, prevCache>>

\* lines 12-19: one iteration of the loop
Iterate ==
    /\ pc = "loop"
    /\ i < RangeStop
    /\ LET epoch == Epoch(now, i)
           key == Key(epoch)
           val == RandRead(randSize, randPos)
       IN \E ret \in SetResults(reachable, i) :
            /\ trace' = trace \o << PrintEvent(key),
                                    ReadEvent(ReadSize, val),
                                    SetEvent(i, epoch, key, val, ret),
                                    PrintEvent(StatusLine(ret)) >>
            /\ cache' = Store(cache, key, val, ret)
            /\ randPos' = randPos + Len(val)
    /\ i' = i + 1
    /\ UNCHANGED <<pc, clock, now, reachable, randSize, exitStatus, run,
                   prevNow, prevKeys, prevCache>>

\* line 12: range exhausted, the script runs off its end
Finish ==
    /\ pc = "loop"
    /\ i >= RangeStop
    /\ pc' = "done"
    /\ exitStatus' = 0
    /\ UNCHANGED <<clock, now, i, cache, reachable, randSize, randPos,
                   trace, run, prevNow, prevKeys, prevCache>>

\* the script is started again, later, against the same server
Rerun ==
    /\ pc = "done"
    /\ run < MaxRuns
    /\ \E t \in RerunClocks : t > clock /\ clock' = t
    /\ pc' = "start"
    /\ run' = run + 1
    /\ prevNow' = now
    /\ prevKeys' = SetKeys(trace)
    /\ prevCache' = DOMAIN cache
    /\ trace' = <<>>
    /\ exitStatus' = -1
    /\ UNCHANGED <<now, i, cache, reachable, randSize, randPos>>

\* one run of the script
Next == Start \/ Iterate \/ Finish

Spec == Init /\ [][Next]_vars

\* one run: the interpreter keeps executing the script until it ends
FairSpec == Init /\ [][Next]_vars /\ WF_vars(Next)

\* the script run repeatedly, with a working random device and server
InitRerun == Init /\ clock = 36000000 /\ reachable /\ randSize < 0 /\ randPos = 0

NextRerun == Start \/ Iterate \/ Finish \/ Rerun

SpecRerun == InitRerun /\ [][NextRerun]_vars

----------------------------------------------------------------------------
(* What the claims are stated with.  These are written from the claims,    *)
(* with the claims' own numbers, and not from the definitions above.       *)

\* the start of the hour-long bucket that contains second t
BucketStart(t) == t - (t % 3600)

IsDigit(c) == \E d \in 1..10 : DigitChars[d] = c
DigitVal(c) == (CHOOSE d \in 1..10 : DigitChars[d] = c) - 1

RECURSIVE ParseNat(_)
ParseNat(s) == IF Len(s) = 0 THEN 0
               ELSE 10 * ParseNat(SubSeq(s, 1, Len(s) - 1))
                    + DigitVal(SubSeq(s, Len(s), Len(s)))

\* s is the decimal numeral of the natural number n, without leading zeros
IsNatNumeral(s, n) ==
    /\ Len(s) >= 1
    /\ \A j \in 1..Len(s) : IsDigit(SubSeq(s, j, j))
    /\ (Len(s) > 1 => SubSeq(s, 1, 1) # "0")
    /\ ParseNat(s) = n

\* s is the decimal numeral of the integer n
IsNumeral(s, n) ==
    IF n < 0 THEN Len(s) >= 2 /\ SubSeq(s, 1, 1) = "-"
                  /\ IsNatNumeral(SubSeq(s, 2, Len(s)), -n)
    ELSE IsNatNumeral(s, n)

\* key is `head` followed by the decimal numeral of epoch
IsKeyOf(key, head, epoch) ==
    /\ Len(key) > Len(head)
    /\ SubSeq(key, 1, Len(head)) = head
    /\ IsNumeral(SubSeq(key, Len(head) + 1, Len(key)), epoch)

\* the positions, among the SETs of a run, of those that failed
Failed(tr) == LET s == Sets(tr) IN {j \in 1..Len(s) : s[j].ret = 0}

RECURSIVE Replay(_, _, _)
\* the server's contents after the SETs s[order[1]], s[order[2]], ... on contents c
Replay(c, s, order) ==
    IF Len(order) = 0 THEN c
    ELSE LET e == s[Head(order)]
         IN Replay(Store(c, e.key, e.val, e.ret), s, Tail(order))

Reversed(n) == [j \in 1..n |-> n + 1 - j]
\* two workers, one on the odd positions and one on the even ones, taking turns
\* from the far ends
TwoWorkers(n) == [j \in 1..n |-> IF j % 2 = 1 THEN (j + 1) \div 2 ELSE n + 1 - (j \div 2)]

----------------------------------------------------------------------------
(* C1 *)

----------------------------------------------------------------------------
(* C2 *)

\* C2: a failed SET never aborts the run: whichever SETs fail, all 54 keys are
\* attempted, and the report prints for each key, in order, the key and then
\* "failure" exactly when its SET returned 0 and "success" otherwise.
C2_FailuresReportedNotFatal ==
    LET s == Sets(trace)
        o == Out(trace)
        f == Failed(trace)
    IN /\ pc # "aborted"
       /\ pc = "loop" => ENABLED Next
       /\ pc \in {"loop", "done"} =>
            /\ Len(s) = i + 50
            /\ Len(o) = 1 + 2 * Len(s)
            /\ \A j \in 1..Len(s) :
                 /\ o[2 * j].line = s[j].key
                 /\ o[2 * j + 1].line \in {"failure", "success"}
                 /\ o[2 * j + 1].line = "failure" <=> j \in f
       /\ pc = "done" =>
            /\ Len(s) = 54
            /\ Cardinality(SetKeys(trace)) = 54
            /\ exitStatus = 0

C2_Witness ==
    /\ pc = "done"
    /\ reachable
    /\ Len(Sets(trace)) = 54
    /\ Cardinality(Failed(trace)) = 2
    /\ 1 \in Failed(trace)
    /\ 54 \notin Failed(trace)

----------------------------------------------------------------------------
(* C3 *)

SecondRunSameNow == run >= 2 /\ pc = "done" /\ prevNow = now

C3_SameKeysNewValues ==
    LET s == Sets(trace)
        r == Reads(trace)
    IN /\ SetKeys(trace) = prevKeys
       /\ Cardinality(SetKeys(trace)) = 54
       /\ Len(s) = 54
       /\ \A j \in 1..Len(s) :
            /\ s[j].val = r[j].val
            /\ s[j].ret # 0 => cache[s[j].key] = s[j].val

\* C3 as claimed: after a second run with the same now, the same 54 keys were
\* attempted, every key whose second SET succeeded holds the second run's value,
\* and the set of keys present in the cache has not grown.
C3_Original ==
    SecondRunSameNow =>
        /\ C3_SameKeysNewValues
        /\ DOMAIN cache \subseteq prevCache

\* C3 as amended: after a second run with the same now, the same 54 keys were
\* attempted, every key whose second SET succeeded holds the second run's
\* value, and the cache has grown by no key outside those 54: it holds the
\* same keys as before when every key of the first run was present.
C3_KeyIdempotent ==
    SecondRunSameNow =>
        /\ C3_SameKeysNewValues
        /\ DOMAIN cache \subseteq (prevCache \cup prevKeys)
        /\ prevCache \subseteq DOMAIN cache
        /\ prevKeys \subseteq prevCache => DOMAIN cache = prevCache

C3_Witness ==
    /\ SecondRunSameNow
    /\ Failed(trace) # {}
    /\ Cardinality(Failed(trace)) < 54
    /\ DOMAIN cache # prevCache

----------------------------------------------------------------------------
(* C4 *)

\* C4 as claimed: the key passed to SET is the prefix "/nts/nts-keys/", then
\* "/", then the decimal epoch.
C4_Original ==
    \A j \in 1..Len(Sets(trace)) :
        IsKeyOf(Sets(trace)[j].key, "/nts/nts-keys/" \o "/", Sets(trace)[j].epoch)

\* C4 as amended: the key passed to SET is "/nts/nts-keys/" followed directly
\* by the decimal epoch, and distinct epochs yield distinct keys.
C4_KeyFormat ==
    LET s == Sets(trace)
    IN /\ \A j \in 1..Len(s) : IsKeyOf(s[j].key, "/nts/nts-keys/", s[j].epoch)
       /\ \A a, b \in 1..Len(s) : s[a].epoch # s[b].epoch => s[a].key # s[b].key

C4_Witness ==
    LET s == Sets(trace)
    IN /\ pc = "done"
       /\ \E j \in 1..Len(s) : s[j].epoch < 0
       /\ \E j \in 1..Len(s) : s[j].epoch = 0
       /\ \E a, b \in 1..Len(s) : s[a].epoch > 0 /\ s[b].epoch = -s[a].epoch

----------------------------------------------------------------------------
(* C5 *)

\* C5: every value passed to SET is exactly 16 bytes long; a random source
\* that returns fewer bytes aborts the run before any SET with a short value.
C5_ValuesAreSixteenBytes ==
    \A j \in 1..Len(Sets(trace)) : Len(Sets(trace)[j].val) = 16

----------------------------------------------------------------------------
(* C6 *)

\* C6: the exit status tells whether a key failed: a finished run exits with
\* status 0 exactly when none of its SETs failed.
C6_ExitStatusReflectsFailure ==
    pc = "done" => (exitStatus = 0 <=> Failed(trace) = {})

----------------------------------------------------------------------------
(* C7 *)

----------------------------------------------------------------------------
(* C8 *)

\* the events of the run so far are the banner and then, for each offset from
\* -50 upwards, the key printed, one rand.read(16), one mc.set of what was
\* read under that key, and the status printed
C8_Shape ==
    /\ pc = "start" => trace = <<>>
    /\ pc \in {"loop", "done"} =>
         /\ Len(trace) = 1 + 4 * (i + 50)
         /\ trace[1].op = "print"
         /\ \A j \in 1..(i + 50) :
              LET b == 1 + 4 * (j - 1)
              IN /\ trace[b + 1].op = "print"
                 /\ trace[b + 2].op = "read" /\ trace[b + 2].n = 16
                 /\ trace[b + 3].op = "set"
                 /\ trace[b + 3].i = j - 51
                 /\ trace[b + 3].val = trace[b + 2].val
                 /\ trace[b + 3].key = trace[b + 1].line
                 /\ trace[b + 4].op = "print"
    /\ pc = "done" => i = 4 /\ Len(Sets(trace)) = 54 /\ Len(Reads(trace)) = 54
                      /\ ~ENABLED Next

\* C8: a run is one sequential pass that always terminates: one draw and then
\* one SET per key, in ascending offset order from -50 to 3, no key twice,
\* and it stops after the 54th attempt whatever the SETs return.
C8_SequentialPassTerminates == []C8_Shape /\ <>(pc = "done")

C8_Witness ==
    /\ pc = "done"
    /\ Len(Sets(trace)) = 54
    /\ Failed(trace) # {}

----------------------------------------------------------------------------
(* C9 *)

\* C9: the 54 keys of a run are pairwise different, so its SETs give the same
\* final cache in whatever order they are performed (here: in reverse, and
\* interleaved from two workers; and any two of them commute), and what the
\* cache holds under a key depends on that key's SET alone: its value if the
\* SET succeeded, what was there before if it failed.
C9_OrderIndependent ==
    LET s == Sets(trace)
    IN /\ \A a, b \in 1..Len(s) : a # b => s[a].key # s[b].key
       /\ \A j \in 1..Len(s) :
            IF s[j].ret # 0
            THEN s[j].key \in DOMAIN cache /\ cache[s[j].key] = s[j].val
            ELSE IF s[j].key \in DOMAIN StaleCache
                 THEN cache[s[j].key] = StaleCache[s[j].key]
                 ELSE s[j].key \notin DOMAIN cache
       /\ \A k \in DOMAIN StaleCache \ SetKeys(trace) : cache[k] = StaleCache[k]
       /\ pc = "done" =>
            /\ Len(s) = 54
            /\ Replay(StaleCache, s, Reversed(54)) = cache
            /\ Replay(StaleCache, s, TwoWorkers(54)) = cache
            /\ \A a, b \in 1..54 : a < b =>
                 /\ Replay(StaleCache, s, <<a, b>>) = Replay(StaleCache, s, <<b, a>>)
                 /\ Replay(cache, s, <<a, b>>) = Replay(cache, s, <<b, a>>)

C9_Witness ==
    /\ pc = "done"
    /\ reachable
    /\ Failed(trace) # {}
    /\ Cardinality(Failed(trace)) < 54
    /\ 1 \in Failed(trace) /\ 2 \notin Failed(trace)

----------------------------------------------------------------------------
(* C10 *)

\* the epochs of the keys "/nts/nts-keys/<decimal>" present in the cache
PresentEpochs ==
    LET e0 == BucketStart(now)
    IN {e \in {e0 + k * 3600 : k \in -51..4} :
          \E key \in DOMAIN cache : IsKeyOf(key, "/nts/nts-keys/", e)}

\* C10: every epoch written is a multiple of 3600; the offset-0 epoch e0 has
\* e0 <= now < e0 + 3600; after a run whose SETs all succeeded the key of the
\* bucket of every time from e0 - 50*3600 up to, not including, e0 + 4*3600 is
\* in the cache; two runs whose nows fall in the same hour write the same keys.
C10_WindowCovered ==
    LET s == Sets(trace)
        e0 == BucketStart(now)
        present == PresentEpochs
    IN /\ \A j \in 1..Len(s) :
            /\ s[j].epoch % 3600 = 0
            /\ s[j].i = 0 => s[j].epoch <= now /\ now < s[j].epoch + 3600
       /\ (pc = "done" /\ Failed(trace) = {}) =>
            /\ \E j \in 1..Len(s) : s[j].i = 0 /\ s[j].epoch = e0
            /\ \A k \in -50..3 : \A d \in {0, 1, 1800, 3599} :
                 BucketStart(e0 + k * 3600 + d) \in present
       /\ (run >= 2 /\ pc = "done" /\ prevNow \div 3600 = now \div 3600) =>
            SetKeys(trace) = prevKeys

C10_Witness ==
    /\ run >= 2
    /\ pc = "done"
    /\ Failed(trace) = {}
    /\ prevNow # now
    /\ prevNow \div 3600 = now \div 3600
    /\ now % 3600 # 0

====
